---- MODULE Spec2Model ----
(***************************************************************************)
(* Model of the audio synchronisation component of khoaang/audiovsl        *)
(* (src/src/app/components/WaveformSync.tsx).                              *)
(*                                                                         *)
(* The state machines of the module:                                       *)
(*   Spec     the synchronised playback controller: the two media          *)
(*            elements, the React state isPlaying / playbackMode /         *)
(*            playbackProgress, the offsetSeconds prop, the setTimeout     *)
(*            callbacks scheduled by togglePlayback, the rejection         *)
(*            handlers of play() and the requestAnimationFrame loop.       *)
(*   SpecAgg  the suggestion aggregation at the end of analyzeSyncPoints,  *)
(*            run on a bounded set of candidate lists.                     *)
(*   SpecOffset    the accepted offset under drags, applied suggestions,   *)
(*                 keyboard steps (src/src/app/page.tsx) and auto-apply.   *)
(*   SpecAnalysis  the asynchronous analysis runs: analyzeSyncPoints,      *)
(*                 initializeAnalysis, the attempts of analyzeAudioData,   *)
(*                 the shared AudioContext, source change and unmount.     *)
(*   SpecSignal    the visualization waveform and findCorrelation on a     *)
(*                 bounded family of decoded channels.                     *)
(*   SpecTop       the aggregation on candidate lists of equal scores.     *)
(*   SpecFeatures  extractAudioFeatures on bounded sequences of per-frame  *)
(*                 extraction outcomes.                                    *)
(*   SpecOnsets    matchOnsets on bounded pairs of onset lists.            *)
(* QuietSpec is the playback controller restricted to sessions in which    *)
(* the sources stay the same and every play() resolves, with weak          *)
(* fairness of the frame callback, of time and of due timers; it carries   *)
(* the liveness property of the progress indicator.                        *)
(*                                                                         *)
(* Units: media time and timer delays are in milliseconds; offsetSeconds   *)
(* is held in tenths of a second in the playback machine (the granularity  *)
(* of the offset control), candidate offsets are held in hundredths of a   *)
(* second in the aggregation (parseFloat(x.toFixed(2))); progress is held  *)
(* in thousandths (0..1000).                                               *)
(***************************************************************************)
EXTENDS Integers, Sequences, FiniteSets, Bags, TLC

VARIABLES
  isPlaying,           \* useState(false), WaveformSync.tsx:42
  playbackMode,        \* useState('both'), WaveformSync.tsx:43
  playbackProgress,    \* useState(0), WaveformSync.tsx:44, in thousandths
  offsetSeconds,       \* prop offsetSeconds, in tenths of a second
  videoAudio,          \* videoAudioRef.current, the media element
  uploadedAudio,       \* uploadedAudioRef.current, the media element
  timers,              \* callbacks registered with setTimeout, not yet run
  notices,             \* number of alert() calls made
  rafPending,          \* a requestAnimationFrame(updateProgress) is pending
  candidates,          \* enhancedResults of the analysis run
  syncSuggestions,     \* useState([]), WaveformSync.tsx:48
  selectedSuggestion,  \* useState(null), WaveformSync.tsx:49
  appliedOffset,       \* last argument of onOffsetChange by the analysis
  analysisDone,        \* the aggregation of analyzeSyncPoints has run
  mounted,             \* the component instance is mounted
  isAnalyzing,         \* useState(false), WaveformSync.tsx:47
  audioContextRef,     \* audioContextRef.current, WaveformSync.tsx:54
  openContexts,        \* number of AudioContext objects not closed
  analyses,            \* runs of analyzeSyncPoints / initializeAnalysis in flight
  returned,            \* history: the last value analyzeAudioData returned
  rawData,             \* a decoded channel, input of the signal functions
  waveform,            \* normalizedData computed from rawData
  correlationResults,  \* findCorrelation(rawData, rawData)
  frameFeatures,       \* what Meyda.extract does for each frame of a track
  audioFeatures,       \* the value extractAudioFeatures returns
  videoOnsets,         \* first argument of matchOnsets
  audioOnsets,         \* second argument of matchOnsets
  onsetResults,        \* the value matchOnsets returns
  lastEvent            \* history: the handler that ran last

playVars == <<isPlaying, playbackMode, playbackProgress, offsetSeconds,
              videoAudio, uploadedAudio, timers, notices, rafPending>>
aggVars == <<candidates, syncSuggestions, selectedSuggestion, appliedOffset,
             analysisDone>>
anVars == <<mounted, isAnalyzing, audioContextRef, openContexts, analyses,
            returned>>
featVars == <<frameFeatures, audioFeatures, videoOnsets, audioOnsets,
              onsetResults>>
sigVars == <<rawData, waveform, correlationResults, featVars>>
vars == <<isPlaying, playbackMode, playbackProgress, offsetSeconds,
          videoAudio, uploadedAudio, timers, notices, rafPending,
          candidates, syncSuggestions, selectedSuggestion, appliedOffset,
          analysisDone, mounted, isAnalyzing, audioContextRef, openContexts,
          analyses, returned, rawData, waveform, correlationResults,
          frameFeatures, audioFeatures, videoOnsets, audioOnsets,
          onsetResults, lastEvent>>

----------------------------------------------------------------------------
(* Bounds *)

MaxTimers == 1     \* setTimeout callbacks pending at once
MaxNotices == 1    \* play() rejections over a run
MaxCandidates == 3 \* candidates in the list an analysis aggregates

(* Inputs *)
Modes == {"both", "video", "audio"}
Offsets == {-10, 0, 10}          \* offsetSeconds values, tenths of a second
Durations == {1000, 2000}        \* media durations, ms
Steps == {1000, 999}             \* time that passes between two steps, ms

\* null; a number x is held as <<x>>
Null == <<>>

Abs(x) == IF x < 0 THEN -x ELSE x
Min(a, b) == IF a < b THEN a ELSE b
Max(a, b) == IF a > b THEN a ELSE b

----------------------------------------------------------------------------
(* The media elements (HTMLAudioElement) *)

NewElement(d) ==
  [paused |-> TRUE, currentTime |-> 0, ended |-> FALSE, duration |-> d]

\* el.pause()
Pause(el) == [el EXCEPT !.paused = TRUE]

\* el.currentTime = 0
Rewind(el) == [el EXCEPT !.currentTime = 0, !.ended = FALSE]

\* el.play() when the promise resolves: a paused element starts, from the
\* beginning if it had ended; a playing element is unaffected.
PlayOk(el) ==
  IF ~el.paused THEN el
  ELSE IF el.ended THEN [el EXCEPT !.paused = FALSE, !.currentTime = 0, !.ended = FALSE]
  ELSE [el EXCEPT !.paused = FALSE]

\* the element after dt ms: a playing element advances and, at its
\* duration, ends and pauses.
Advance(el, dt) ==
  IF el.paused THEN el
  ELSE LET t == Min(el.currentTime + dt, el.duration)
       IN  IF t = el.duration
           THEN [el EXCEPT !.currentTime = t, !.ended = TRUE, !.paused = TRUE]
           ELSE [el EXCEPT !.currentTime = t]

----------------------------------------------------------------------------
(* Timers: the bag of setTimeout callbacks not yet run.  target is the    *)
(* element the callback plays, delay the delay it was registered with,    *)
(* remaining what is left of it.  Two history                             *)
(* fields describe the session that scheduled the callback: mode, the     *)
(* mode it was started in, and session, what has happened to it since:    *)
(* "live", "stopped" (explicit stop), "offset" (offset change), "toggled" *)
(* (mode toggle while playing), "torn" (source URLs changed), "over"      *)
(* (natural end or play() rejection).                                     *)

Timer(tgt, delay, mode) ==
  [target |-> tgt, delay |-> delay, remaining |-> delay, mode |-> mode,
   session |-> "live"]

Pending == BagToSet(timers)

RetireOne(t, why) == IF t.session = "live" THEN [t EXCEPT !.session = why] ELSE t

Retire(ts, why) == BagOfAll(LAMBDA t : RetireOne(t, why), ts)

\* setTimeout(callback, delay)
SetTimeout(ts, tgt, delay, mode) == ts (+) SetToBag({Timer(tgt, delay, mode)})

\* the callback has run
Remove(ts, t) == ts (-) SetToBag({t})

RunDown(ts, dt) ==
  BagOfAll(LAMBDA t : [t EXCEPT !.remaining = Max(0, t.remaining - dt)], ts)

----------------------------------------------------------------------------
(* el.play(): the promise resolves (ok) or rejects (the browser does not    *)
(* allow the element to start); a rejection leaves the element paused and  *)
(* its .catch handler runs in the microtask checkpoint that ends the       *)
(* calling task, before any other handler, so it is part of the step of    *)
(* the handler that called play().  A play() on an element that is already *)
(* playing resolves.                                                       *)

\* the play() calls of one handler that reject (rej: their sources) are
\* capped by MaxNotices over a run
RejectCap(rej) == notices + Cardinality(rej) <= MaxNotices

Play(el, ok) == IF ok THEN PlayOk(el) ELSE el

----------------------------------------------------------------------------
(* The reference track of updateProgress and isPlaybackEnded *)

Reference(mode, off) ==
  IF mode = "video" THEN "video"
  ELSE IF mode = "audio" THEN "audio"
  ELSE IF off >= 0 THEN "video" ELSE "audio"

\* isPlaybackEnded ending 'both' mode on either track
isPlaybackEnded_EitherTrack ==
  IF playbackMode = "video" /\ videoAudio.ended THEN TRUE
  ELSE IF playbackMode = "audio" /\ uploadedAudio.ended THEN TRUE
  ELSE IF playbackMode = "both"
       THEN videoAudio.ended \/ uploadedAudio.ended
       ELSE FALSE

\* isPlaybackEnded, WaveformSync.tsx:201-218
isPlaybackEnded ==
  IF playbackMode = "video" /\ videoAudio.ended THEN TRUE
  ELSE IF playbackMode = "audio" /\ uploadedAudio.ended THEN TRUE
  ELSE IF playbackMode = "both"
       THEN IF offsetSeconds >= 0 THEN videoAudio.ended ELSE uploadedAudio.ended
       ELSE FALSE


\* duration || 1 (one second), in ms
DurationOr1(d) == IF d = 0 THEN 1000 ELSE d

\* progress as the share of the track still to play
ProgressOf_Remaining(el) ==
  Min(((el.duration - el.currentTime) * 1000) \div DurationOr1(el.duration), 1000)

\* Math.min(currentTime / totalDuration, 1), in thousandths (rounded down)
ProgressOf(el) ==
  Min((el.currentTime * 1000) \div DurationOr1(el.duration), 1000)

\* the progress updateProgress computes, WaveformSync.tsx:122-162
ComputedProgress ==
  IF playbackMode = "video" THEN ProgressOf(videoAudio)
  ELSE IF playbackMode = "audio" THEN ProgressOf(uploadedAudio)
  ELSE IF offsetSeconds >= 0 THEN ProgressOf(videoAudio)
  ELSE ProgressOf(uploadedAudio)

----------------------------------------------------------------------------
(* The playback controller *)

InitAggIdle ==
  /\ candidates = <<>>
  /\ syncSuggestions = <<>>
  /\ selectedSuggestion = Null
  /\ appliedOffset = Null
  /\ analysisDone = FALSE

\* the component at rest after its first analysis: the shared decoding
\* context exists, no run is in flight
InitAnIdle ==
  /\ mounted = TRUE
  /\ isAnalyzing = FALSE
  /\ audioContextRef = <<"context">>
  /\ openContexts = 1
  /\ analyses = EmptyBag
  /\ returned = Null

\* no feature extraction and no onset matching under computation
InitFeatIdle ==
  /\ frameFeatures = Null
  /\ audioFeatures = Null
  /\ videoOnsets = Null
  /\ audioOnsets = Null
  /\ onsetResults = Null

\* no signal under computation
InitSigIdle ==
  /\ rawData = Null
  /\ waveform = Null
  /\ correlationResults = Null
  /\ InitFeatIdle

InitPlayIdle ==
  /\ isPlaying = FALSE
  /\ playbackMode = "both"
  /\ playbackProgress = 0
  /\ offsetSeconds = 0
  /\ timers = EmptyBag
  /\ notices = 0
  /\ rafPending = FALSE
  /\ lastEvent = "init"

Init ==
  /\ InitPlayIdle
  /\ \E dv \in Durations, da \in Durations :
        /\ videoAudio = NewElement(dv)
        /\ uploadedAudio = NewElement(da)
  /\ InitAggIdle
  /\ InitAnIdle
  /\ InitSigIdle

\* the stop branch of togglePlayback, WaveformSync.tsx:222-231
StopBranch ==
  /\ videoAudio' = Pause(videoAudio)
  /\ uploadedAudio' = Pause(uploadedAudio)
  /\ isPlaying' = FALSE
  /\ playbackProgress' = 0
  /\ rafPending' = FALSE
  /\ timers' = Retire(timers, "stopped")
  /\ lastEvent' = "stop"
  /\ UNCHANGED <<playbackMode, offsetSeconds, notices>>

\* which calls the start branch makes, WaveformSync.tsx:247-292
PlaysVideoNow(mode, off) == mode = "both" \/ mode = "video"
DefersAudio(mode, off) == (mode = "both" \/ mode = "audio") /\ off > 0
PlaysAudioNow(mode, off) == (mode = "both" \/ mode = "audio") /\ ~(off > 0)
DefersVideo(mode, off) == PlaysAudioNow(mode, off) /\ mode = "both"

\* the .catch handlers of the play() calls, WaveformSync.tsx:249-253,
\* 263-267, 272-276, 282-286: setIsPlaying(false) and an alert; the effect
\* of WaveformSync.tsx:107-118 then cancels the animation frame.  rej: the
\* sources whose play() rejected in this step; playing: isPlaying after
\* the synchronous part of the step.
CatchPlaying(rej, playing) == IF rej = {} THEN playing ELSE FALSE

\* the start branch of togglePlayback, WaveformSync.tsx:232-297
StartBranch(mode, okV, okA) ==
  LET off == offsetSeconds
      v0 == Pause(Rewind(videoAudio))
      a0 == Pause(Rewind(uploadedAudio))
      rej == (IF PlaysVideoNow(mode, off) /\ ~okV THEN {"video"} ELSE {})
             \cup (IF PlaysAudioNow(mode, off) /\ ~okA THEN {"audio"} ELSE {})
      t0 == Retire(timers, IF isPlaying THEN "toggled" ELSE "over")
      t1 == IF DefersAudio(mode, off) THEN SetTimeout(t0, "audio", off * 100, mode) ELSE t0
      t2 == IF DefersVideo(mode, off) THEN SetTimeout(t1, "video", Abs(off) * 100, mode) ELSE t1
  IN  /\ (DefersAudio(mode, off) \/ DefersVideo(mode, off))
           => BagCardinality(timers) < MaxTimers
      /\ PlaysVideoNow(mode, off) \/ okV
      /\ PlaysAudioNow(mode, off) \/ okA
      /\ RejectCap(rej)
      /\ playbackMode' = mode
      /\ videoAudio' = IF PlaysVideoNow(mode, off) THEN Play(v0, okV) ELSE v0
      /\ uploadedAudio' = IF PlaysAudioNow(mode, off) THEN Play(a0, okA) ELSE a0
      /\ isPlaying' = CatchPlaying(rej, TRUE)
      /\ rafPending' = CatchPlaying(rej, TRUE)
      /\ timers' = IF CatchPlaying(rej, TRUE) THEN t2 ELSE Retire(t2, "over")
      /\ notices' = notices + Cardinality(rej)
      /\ playbackProgress' = 0
      /\ lastEvent' = IF rej # {} THEN "startRejected"
                      ELSE IF isPlaying THEN "toggle" ELSE "start"
      /\ UNCHANGED offsetSeconds

\* togglePlayback(mode), WaveformSync.tsx:221-298; okV, okA: whether the
\* play() calls of the video and the uploaded-audio element resolve
togglePlayback(mode, okV, okA) ==
  /\ IF isPlaying /\ playbackMode = mode
     THEN okV /\ okA /\ StopBranch
     ELSE StartBranch(mode, okV, okA)
  /\ UNCHANGED aggVars
  /\ UNCHANGED <<anVars, sigVars>>

\* the callback of a setTimeout of togglePlayback, WaveformSync.tsx:261-269
\* and 280-288, run once its delay has passed
TimerFires(t, ok) ==
  /\ t \in Pending
  /\ t.remaining = 0
  /\ LET el == IF t.target = "video" THEN videoAudio ELSE uploadedAudio
         rej == IF ~ok THEN {t.target} ELSE {}
         ts == Remove(timers, t)
     IN  /\ ok \/ el.paused
         /\ RejectCap(rej)
         /\ IF t.target = "video"
            THEN videoAudio' = Play(videoAudio, ok) /\ UNCHANGED uploadedAudio
            ELSE uploadedAudio' = Play(uploadedAudio, ok) /\ UNCHANGED videoAudio
         /\ isPlaying' = CatchPlaying(rej, isPlaying)
         /\ rafPending' = CatchPlaying(rej, rafPending)
         /\ timers' = IF rej = {} THEN ts ELSE Retire(ts, "over")
         /\ notices' = notices + Cardinality(rej)
         /\ lastEvent' = IF ok THEN "timer" ELSE "timerRejected"
  /\ UNCHANGED <<playbackMode, playbackProgress, offsetSeconds>>
  /\ UNCHANGED aggVars
  /\ UNCHANGED <<anVars, sigVars>>

\* updateProgress, the requestAnimationFrame callback, WaveformSync.tsx:120-173
updateProgress ==
  /\ rafPending
  /\ IF ComputedProgress >= 999 \/ isPlaybackEnded
     THEN /\ isPlaying' = FALSE
          /\ playbackProgress' = 0
          /\ rafPending' = FALSE
          /\ timers' = Retire(timers, "over")
          /\ lastEvent' = "end"
     ELSE /\ playbackProgress' = ComputedProgress
          /\ lastEvent' = "frame"
          /\ UNCHANGED <<isPlaying, rafPending, timers>>
  /\ UNCHANGED <<playbackMode, offsetSeconds, videoAudio, uploadedAudio, notices>>
  /\ UNCHANGED aggVars
  /\ UNCHANGED <<anVars, sigVars>>

\* the effect leaving the uploaded audio playing
OffsetEffect_VideoOnly ==
  IF isPlaying
  THEN /\ videoAudio' = Pause(videoAudio)
       /\ isPlaying' = FALSE
       /\ playbackProgress' = 0
       /\ rafPending' = FALSE
       /\ timers' = Retire(timers, "offset")
       /\ lastEvent' = "offsetStop"
       /\ UNCHANGED uploadedAudio
  ELSE /\ lastEvent' = "offset"
       /\ UNCHANGED <<videoAudio, uploadedAudio, isPlaying, playbackProgress,
                      rafPending, timers>>

\* the effect on [offsetSeconds], WaveformSync.tsx:974-985, when the prop
\* changes (drag, applySuggestion, keyboard step, auto-apply)
OffsetEffect ==
  IF isPlaying
  THEN /\ videoAudio' = Pause(videoAudio)
       /\ uploadedAudio' = Pause(uploadedAudio)
       /\ isPlaying' = FALSE
       /\ playbackProgress' = 0
       /\ rafPending' = FALSE
       /\ timers' = Retire(timers, "offset")
       /\ lastEvent' = "offsetStop"
  ELSE /\ lastEvent' = "offset"
       /\ UNCHANGED <<videoAudio, uploadedAudio, isPlaying, playbackProgress,
                      rafPending, timers>>

OffsetChange(new) ==
  /\ new # offsetSeconds
  /\ offsetSeconds' = new
  /\ OffsetEffect
  /\ UNCHANGED <<playbackMode, notices>>
  /\ UNCHANGED aggVars
  /\ UNCHANGED <<anVars, sigVars>>

\* videoSrc / audioSrc change: the cleanups of WaveformSync.tsx:90-103 and
\* 1041-1059, then the effect of WaveformSync.tsx:57-89 loads the new
\* sources (durations dv, da)
SrcEffects(dv, da) ==
  /\ mounted
  /\ videoAudio' = NewElement(dv)
  /\ uploadedAudio' = NewElement(da)
  /\ isPlaying' = FALSE
  /\ rafPending' = FALSE
  /\ timers' = Retire(timers, "torn")
  /\ isAnalyzing' = FALSE
  /\ syncSuggestions' = <<>>
  /\ selectedSuggestion' = Null
  /\ lastEvent' = "teardown"
  /\ UNCHANGED <<playbackMode, playbackProgress, offsetSeconds, notices>>
  /\ UNCHANGED <<candidates, appliedOffset, analysisDone>>
  /\ UNCHANGED <<mounted, returned>>
  /\ UNCHANGED sigVars

\* the source change as the playback controller sees it: the analysis run
\* that the same commit starts is followed in SpecAnalysis
SrcChange(dv, da) ==
  /\ SrcEffects(dv, da)
  /\ UNCHANGED <<analyses, audioContextRef, openContexts>>

\* dt ms pass: playing elements advance, timer delays run down.  Timers
\* are punctual: a callback whose delay has run out is run before more
\* time passes.
Tick(dt) ==
  /\ \A t \in Pending : t.remaining > 0
  /\ \/ ~videoAudio.paused
     \/ ~uploadedAudio.paused
     \/ \E t \in Pending : t.remaining > 0
  /\ videoAudio' = Advance(videoAudio, dt)
  /\ uploadedAudio' = Advance(uploadedAudio, dt)
  /\ timers' = RunDown(timers, dt)
  /\ lastEvent' = "tick"
  /\ UNCHANGED <<isPlaying, playbackMode, playbackProgress, offsetSeconds,
                 notices, rafPending>>
  /\ UNCHANGED aggVars
  /\ UNCHANGED <<anVars, sigVars>>

Next ==
  \/ \E mode \in Modes, okV \in BOOLEAN, okA \in BOOLEAN : togglePlayback(mode, okV, okA)
  \/ \E t \in Pending, ok \in BOOLEAN : TimerFires(t, ok)
  \/ updateProgress
  \/ \E new \in Offsets : OffsetChange(new)
  \/ \E dv \in Durations, da \in Durations : SrcChange(dv, da)
  \/ \E dt \in Steps : Tick(dt)

Spec == Init /\ [][Next]_vars

\* The controller when the sources stay the same, every play() resolves
\* and the user only plays and stops 'both' mode and changes the offset.
\* The event loop runs a pending animation frame, lets time pass and runs
\* a timer whose delay has run out.
QuietNext ==
  \/ togglePlayback("both", TRUE, TRUE)
  \/ \E t \in Pending : TimerFires(t, TRUE)
  \/ updateProgress
  \/ \E new \in Offsets : OffsetChange(new)
  \/ \E dt \in Steps : Tick(dt)

QuietSpec ==
  /\ Init
  /\ [][QuietNext]_vars
  /\ WF_vars(updateProgress)
  /\ WF_vars(\E dt \in Steps : Tick(dt))
  /\ WF_vars(\E t \in Pending : TimerFires(t, TRUE))

----------------------------------------------------------------------------
(* The suggestion aggregation of analyzeSyncPoints.  A candidate is a      *)
(* record [offset, correlation, method]: offset in hundredths of a second, *)
(* correlation in tenths.  Weights are in tenths, so a weighted score is   *)
(* in hundredths.                                                          *)

Methods == {"basic-correlation", "mfcc", "onset"}

\* the offsets a method reports: findCorrelation and compareMFCCs scan
\* [-5, 5] in steps of 0.1 s, matchOnsets reports any difference of two
\* onset times within [-5, 5], to two decimals
OffsetsOf(m) == IF m = "onset" THEN {-100, 5, 500} ELSE {-500, 0, 100}

\* the confidences a method reports: matchOnsets 1.0 or 0.5, the others a
\* mean of products
CorrelationsOf(m) == IF m = "onset" THEN {5, 10} ELSE {-3, 9}

CandidatePool ==
  UNION {{[offset |-> o, correlation |-> c, method |-> m] :
            o \in OffsetsOf(m), c \in CorrelationsOf(m)} : m \in Methods}

CandidateLists == UNION {[1..n -> CandidatePool] : n \in 0..MaxCandidates}

\* methodWeights[result.method] || 0.1, WaveformSync.tsx:713-722
methodWeight(m) ==
  IF m = "mfcc" THEN 5
  ELSE IF m = "onset" THEN 3
  ELSE IF m = "basic-correlation" THEN 2
  ELSE 1

\* result.correlation * weight, WaveformSync.tsx:722
weightedScore(c) == c.correlation * methodWeight(c.method)

\* Array.prototype.sort is stable: x goes after the entries that do not
\* sort after it.  (a, b) => b.weightedScore - a.weightedScore
RECURSIVE InsertByScore(_, _)
InsertByScore(x, sorted) ==
  IF sorted = <<>> THEN <<x>>
  ELSE IF weightedScore(Head(sorted)) >= weightedScore(x)
       THEN <<Head(sorted)>> \o InsertByScore(x, Tail(sorted))
       ELSE <<x>> \o sorted

RECURSIVE SortByScore(_)
SortByScore(cs) ==
  IF cs = <<>> THEN <<>>
  ELSE InsertByScore(cs[Len(cs)], SortByScore(SubSeq(cs, 1, Len(cs) - 1)))

\* a sort that puts an entry before the entries of equal absolute value
RECURSIVE InsertByAbs_Unstable(_, _)
InsertByAbs_Unstable(x, sorted) ==
  IF sorted = <<>> THEN <<x>>
  ELSE IF Abs(Head(sorted)) < Abs(x)
       THEN <<Head(sorted)>> \o InsertByAbs_Unstable(x, Tail(sorted))
       ELSE <<x>> \o sorted

\* (a, b) => Math.abs(a) - Math.abs(b), WaveformSync.tsx:749
RECURSIVE InsertByAbs(_, _)
InsertByAbs(x, sorted) ==
  IF sorted = <<>> THEN <<x>>
  ELSE IF Abs(Head(sorted)) <= Abs(x)
       THEN <<Head(sorted)>> \o InsertByAbs(x, Tail(sorted))
       ELSE <<x>> \o sorted

RECURSIVE SortByAbs(_)
SortByAbs(xs) ==
  IF xs = <<>> THEN <<>>
  ELSE InsertByAbs(xs[Len(xs)], SortByAbs(SubSeq(xs, 1, Len(xs) - 1)))

Range(xs) == {xs[i] : i \in DOMAIN xs}

\* Array.from(new Set(xs)): the first occurrence of each value, in order
RECURSIVE Dedupe(_)
Dedupe(xs) ==
  IF xs = <<>> THEN <<>>
  ELSE LET front == Dedupe(SubSeq(xs, 1, Len(xs) - 1))
           x == xs[Len(xs)]
       IN  IF x \in Range(front) THEN front ELSE Append(front, x)

\* .filter(offset => offset >= -5 && offset <= 5), WaveformSync.tsx:748
InRange(xs) == SelectSeq(xs, LAMBDA o : o >= -500 /\ o <= 500)

\* sortedResults.slice(0, 3).map(result => result.offset), WaveformSync.tsx:726-731
TopOffsets(cs) ==
  LET sorted == SortByScore(cs)
  IN  [i \in 1..Min(3, Len(sorted)) |-> sorted[i].offset]

\* the variations without the 0 that is pushed last
Augment_NoZero(top) ==
  IF top # <<>> THEN top \o <<top[1] + 5, top[1] - 5>> ELSE top

\* bestMatch +- 0.05 and 0 pushed, WaveformSync.tsx:733-744
Augment(top) ==
  LET varied == IF top # <<>> THEN top \o <<top[1] + 5, top[1] - 5>> ELSE top
  IN  IF 0 \in Range(varied) THEN varied ELSE Append(varied, 0)

\* uniqueSuggestions, WaveformSync.tsx:746-749
UniqueSuggestions(cs) == SortByAbs(InRange(Dedupe(Augment(TopOffsets(cs)))))

InitAgg ==
  /\ InitPlayIdle
  /\ videoAudio = NewElement(1000)
  /\ uploadedAudio = NewElement(1000)
  /\ candidates \in CandidateLists
  /\ syncSuggestions = <<>>
  /\ selectedSuggestion = Null
  /\ appliedOffset = Null
  /\ analysisDone = FALSE
  /\ InitAnIdle
  /\ InitSigIdle

\* an aggregation that sorts the candidate list itself
AggregationStep_SortsInput(cs) ==
  [input |-> SortByScore(cs), suggestions |-> UniqueSuggestions(cs)]

\* the aggregation step on the array cs, WaveformSync.tsx:712-749: the
\* array after the step and the suggestions computed.  enhancedResults.map
\* makes the array that sort() then orders in place, so cs keeps its order
AggregationStep(cs) ==
  [input |-> cs, suggestions |-> UniqueSuggestions(cs)]

\* the aggregation and auto-apply of analyzeSyncPoints, WaveformSync.tsx:712-759;
\* it can be applied again to the same candidates

Aggregate ==
  /\ LET step == AggregationStep(candidates)
         unique == step.suggestions
     IN  /\ candidates' = step.input
         /\ syncSuggestions' = unique
         /\ IF Len(unique) > 0
            THEN /\ selectedSuggestion' = <<unique[1]>>
                 /\ appliedOffset' = <<unique[1]>>
            ELSE UNCHANGED <<selectedSuggestion, appliedOffset>>
  /\ analysisDone' = TRUE
  /\ lastEvent' = IF analysisDone THEN "reanalysis" ELSE "analysis"
  /\ UNCHANGED playVars
  /\ UNCHANGED <<anVars, sigVars>>

NextAgg == Aggregate

SpecAgg == InitAgg /\ [][NextAgg]_vars

----------------------------------------------------------------------------
(* Properties of the playback controller *)

ElementOf(src) == IF src = "video" THEN videoAudio ELSE uploadedAudio

RefElement == ElementOf(Reference(playbackMode, offsetSeconds))

\* the callback t runs in this step
Fired(t) ==
  /\ t \in Pending
  /\ t.remaining = 0
  /\ CopiesIn(t, timers') < CopiesIn(t, timers)

\* the target of t goes from paused to playing in this step
Starts(t) ==
  IF t.target = "video"
  THEN videoAudio.paused /\ ~videoAudio'.paused
  ELSE uploadedAudio.paused /\ ~uploadedAudio'.paused

\* C1: no source is playing while isPlaying is false.
C1_SilentWhileNotPlaying ==
  ~isPlaying => (videoAudio.paused /\ uploadedAudio.paused)

\* C2: a deferred start of a 'both'-mode session with offset # 0 that was
\* stopped (explicit stop or offset change) before the timer fired never
\* starts its source.
C2_StoppedTimerNeverStarts ==
  [][\A t \in Pending :
       (t.mode = "both" /\ t.delay > 0 /\ t.session \in {"stopped", "offset"}
          /\ Fired(t))
         => ~Starts(t)]_vars

\* C3: the step in which offsetSeconds changes while isPlaying pauses both
\* sources, leaves isPlaying false and progress 0, and starts nothing for
\* the new offset (no source playing, no live timer, no frame pending).
C3_OffsetChangeStops ==
  [][(offsetSeconds' # offsetSeconds /\ isPlaying)
       => /\ videoAudio'.paused /\ uploadedAudio'.paused
          /\ ~isPlaying'
          /\ playbackProgress' = 0
          /\ ~rafPending'
          /\ \A t \in BagToSet(timers') : t.session # "live"]_vars

\* an offset change has just stopped a session whose deferred start was
\* still pending
C3_Witness ==
  /\ lastEvent = "offsetStop"
  /\ ~isPlaying /\ videoAudio.paused /\ uploadedAudio.paused
  /\ \E t \in Pending : t.session = "offset"

\* C4: in a 'both'-mode session the deferred source is not playing before
\* its delay of |offsetSeconds| has run out.
C4_DeferredSourceWaits ==
  \A t \in Pending :
    (t.session = "live" /\ t.mode = "both" /\ t.remaining > 0)
      => ElementOf(t.target).paused

\* C5: the step that starts a single-track session starts the selected
\* source at once, starts no other source and defers nothing.
C5_SingleTrackStartsAtOnce ==
  (lastEvent \in {"start", "toggle"} /\ playbackMode \in {"video", "audio"})
    => /\ ~ElementOf(playbackMode).paused
       /\ ElementOf(IF playbackMode = "video" THEN "audio" ELSE "video").paused
       /\ \A t \in Pending : t.session # "live"

\* C6: a timer of a session that was cancelled by a toggle to another mode
\* never starts a source.
C6_ToggledTimerNeverStarts ==
  [][\A t \in Pending : (t.session = "toggled" /\ Fired(t)) => ~Starts(t)]_vars

\* C7: after a play() rejection isPlaying is false, a notice was raised
\* and no source is left playing.
C7_RejectionAbortsSession ==
  lastEvent \in {"startRejected", "timerRejected"}
    => /\ ~isPlaying
       /\ notices > 0
       /\ videoAudio.paused /\ uploadedAudio.paused

\* the scenario of C8: 'both' mode, offset 0, tracks of equal duration
C8_Scenario ==
  /\ playbackMode = "both"
  /\ offsetSeconds = 0
  /\ videoAudio.duration = uploadedAudio.duration

\* C8: in the scenario, while the session is playing the progress does
\* not decrease from one per-frame update to the next, and once the video
\* (the reference track) has ended the session reaches isPlaying = false
\* with progress 0.
C8_ProgressThenEnd ==
  /\ [][(isPlaying /\ C8_Scenario /\ lastEvent' = "frame")
          => playbackProgress' >= playbackProgress]_vars
  /\ (isPlaying /\ C8_Scenario /\ videoAudio.ended)
       ~> (~isPlaying /\ playbackProgress = 0)

\* the scenario's session has ended by itself after the video played to
\* its end
C8_Witness ==
  /\ lastEvent = "end"
  /\ C8_Scenario
  /\ videoAudio.duration = 2000
  /\ videoAudio.ended
  /\ ~isPlaying /\ playbackProgress = 0

\* C9 as stated: a session ends by itself only when its reference track
\* reports ended.
C9_EndsOnlyWhenReferenceEnded ==
  lastEvent = "end" => RefElement.ended

\* C9 amended: a session ends by itself only when its reference track
\* reports ended or has played 99.9% of its duration.
C9_EndsOnlyNearReferenceEnd ==
  lastEvent = "end" => (RefElement.ended \/ ProgressOf(RefElement) >= 999)

\* a 'both'-mode session with a negative offset has ended by itself on the
\* uploaded audio, its reference, while the video has not ended
C9_Witness ==
  /\ lastEvent = "end"
  /\ playbackMode = "both" /\ offsetSeconds < 0
  /\ uploadedAudio.ended /\ ~videoAudio.ended

----------------------------------------------------------------------------
(* Properties of the aggregation *)

\* C10: when one candidate has the highest weighted score, the offset the
\* analysis applies and selects is within 0.1 s of that candidate's.
C10_AppliesBestCandidate ==
  analysisDone =>
    \A i \in DOMAIN candidates :
      (\A j \in DOMAIN candidates :
          j # i => weightedScore(candidates[i]) > weightedScore(candidates[j]))
        => /\ appliedOffset # Null
           /\ selectedSuggestion = appliedOffset
           /\ Abs(appliedOffset[1] - candidates[i].offset) <= 10

\* the list the suggestions are taken from, in insertion order: the top
\* candidates, best + 0.05, best - 0.05, then 0
Inserted == Augment(TopOffsets(candidates))

\* the index of the first occurrence of x in xs
FirstIndex(xs, x) == CHOOSE i \in DOMAIN xs : xs[i] = x /\ \A j \in 1..(i - 1) : xs[j] # x

\* C11: every suggestion lies in [-5.0, 5.0], is a multiple of 0.1 and no
\* two suggestions are equal after rounding to one decimal (for multiples
\* of 0.1 the rounding changes nothing, so: no two are equal).
C11_SuggestionsOneDecimalInRange ==
  analysisDone =>
    /\ \A i \in DOMAIN syncSuggestions :
         /\ syncSuggestions[i] >= -500 /\ syncSuggestions[i] <= 500
         /\ syncSuggestions[i] % 10 = 0
    /\ \A i, j \in DOMAIN syncSuggestions :
         i # j => syncSuggestions[i] # syncSuggestions[j]

\* C12: the suggestion list contains 0 and is in ascending order of
\* absolute value, entries of equal absolute value in insertion order.
C12_ZeroAndAbsOrder ==
  analysisDone =>
    /\ 0 \in Range(syncSuggestions)
    /\ \A i, j \in DOMAIN syncSuggestions :
         i < j =>
           /\ Abs(syncSuggestions[i]) <= Abs(syncSuggestions[j])
           /\ Abs(syncSuggestions[i]) = Abs(syncSuggestions[j])
                => FirstIndex(Inserted, syncSuggestions[i])
                     < FirstIndex(Inserted, syncSuggestions[j])

\* a published list in which two different offsets have the same absolute
\* value and 0 was not among the top candidates
C12_Witness ==
  /\ analysisDone
  /\ 0 \notin Range(TopOffsets(candidates))
  /\ \E i, j \in DOMAIN syncSuggestions :
       i < j /\ syncSuggestions[i] = -syncSuggestions[j] /\ syncSuggestions[i] # 0

----------------------------------------------------------------------------
(* The accepted offset: syncOptions.offset of page.tsx, written by the     *)
(* onOffsetChange callback of WaveformSync (drag, applySuggestion, the     *)
(* auto-apply of analyzeSyncPoints) and by the keyboard handler of         *)
(* page.tsx.  It is held in appliedOffset, in hundredths of a second;      *)
(* Null is the initial undefined, read as 0.                               *)

\* the largest |offset|, in hundredths, from which the keyboard steps on
MaxKeyOffset == 510

\* dragStartOffset + deltaSeconds, in hundredths: any real number
DragTargets == {-700, -496, -33, 0, 25, 495, 700}

\* syncOptions.offset || 0, page.tsx:1131
OffsetOr0 == IF appliedOffset = Null THEN 0 ELSE appliedOffset[1]

\* Math.floor(x / 10) for hundredths x of either sign
FloorTenth(x) == IF x >= 0 THEN x \div 10 ELSE -((-x + 9) \div 10)

\* parseFloat(x.toFixed(1)): the multiple of 0.1 nearest to the double x;
\* for a decimal x.x5 the double is not exactly halfway, and whether it
\* lies above or below depends on the value (0.95 gives 0.9, 1.05 gives
\* 1.1), so both neighbours are results
ToFixed1(x) ==
  LET lo == FloorTenth(x) * 10
  IN  IF x - lo < 5 THEN {lo}
      ELSE IF x - lo > 5 THEN {lo + 10}
      ELSE {lo, lo + 10}

\* Math.max(-5, Math.min(5, x)), WaveformSync.tsx:947
Clamp(x) == Max(-500, Min(500, x))

\* handleMouseMove while dragging, WaveformSync.tsx:935-952
handleMouseMove(raw) ==
  /\ \E r \in ToFixed1(Clamp(raw)) : appliedOffset' = <<r>>
  /\ selectedSuggestion' = Null
  /\ lastEvent' = "drag"
  /\ UNCHANGED <<candidates, syncSuggestions, analysisDone>>
  /\ UNCHANGED playVars
  /\ UNCHANGED <<anVars, sigVars>>

\* applySuggestion(offset) on a click on a suggestion, WaveformSync.tsx:968-971
applySuggestion(i) ==
  /\ i \in DOMAIN syncSuggestions
  /\ \E r \in ToFixed1(syncSuggestions[i]) : appliedOffset' = <<r>>
  /\ selectedSuggestion' = <<syncSuggestions[i]>>
  /\ lastEvent' = "apply"
  /\ UNCHANGED <<candidates, syncSuggestions, analysisDone>>
  /\ UNCHANGED playVars
  /\ UNCHANGED <<anVars, sigVars>>

\* Shift+ArrowLeft (step = -0.1) and Shift+ArrowRight (step = 0.1),
\* page.tsx:1125-1142
handleKeyDown(step) ==
  /\ Abs(OffsetOr0) < MaxKeyOffset
  /\ appliedOffset' = <<OffsetOr0 + step>>
  /\ lastEvent' = "key"
  /\ UNCHANGED <<candidates, syncSuggestions, selectedSuggestion, analysisDone>>
  /\ UNCHANGED playVars
  /\ UNCHANGED <<anVars, sigVars>>

NextOffset ==
  \/ Aggregate
  \/ \E raw \in DragTargets : handleMouseMove(raw)
  \/ \E i \in 1..6 : applySuggestion(i)
  \/ \E step \in {-10, 10} : handleKeyDown(step)

\* the analysis has at most one candidate to aggregate
InitOffset == InitAgg /\ Len(candidates) <= 1

SpecOffset == InitOffset /\ [][NextOffset]_vars

\* C13: the accepted offset is within [-5, 5] and a multiple of 0.1 after
\* every sequence of drags, applied suggestions, keyboard steps and
\* auto-applied analysis results.
C13_AcceptedOffsetClamped ==
  appliedOffset # Null =>
    /\ appliedOffset[1] >= -500 /\ appliedOffset[1] <= 500
    /\ appliedOffset[1] % 10 = 0

----------------------------------------------------------------------------
(* Teardown of the playback controller *)

\* C17: the step in which the track URLs change leaves both sources paused
\* and isPlaying false, and a timer that a 'both'-mode session scheduled
\* before the change never starts a source afterwards.
C17_TeardownCancelsTimers ==
  [][/\ lastEvent' = "teardown"
          => (videoAudio'.paused /\ uploadedAudio'.paused /\ ~isPlaying')
     /\ \A t \in Pending :
          (t.session = "torn" /\ t.mode = "both" /\ t.delay > 0 /\ Fired(t))
            => ~Starts(t)]_vars

----------------------------------------------------------------------------
(* The analysis runs.  analyzeSyncPoints and initializeAnalysis are async  *)
(* functions: each calls analyzeAudioData for the video track and then for *)
(* the uploaded audio track, and every call makes attempts (fetch, decode) *)
(* that settle later.  A run in flight is a record                         *)
(*   kind          "sync" (analyzeSyncPoints) or "initialize"              *)
(*   track         the track whose analyzeAudioData call is in progress    *)
(*   retryCount    retryCount of that call                                 *)
(*   placeholders  the tracks of this run whose call returned the          *)
(*                 placeholder                                             *)
(*   completed     history: the tracks of this run whose call has returned *)
(*   stale         history: the sources changed after the run started      *)
(* The code between two awaits runs in one task; the continuations of a    *)
(* settled attempt run in the microtasks that follow it, before any other  *)
(* handler, and are part of the same step.                                 *)

\* runs in flight at once
MaxAnalyses == 2

\* analyzeAudioData with one more retry
maxRetries_Three == 1 + 2

\* const maxRetries = 2, WaveformSync.tsx:311
maxRetries == 2

\* a run that starts with the uploaded audio track
Run_AudioFirst(kind) ==
  [kind |-> kind, track |-> "audio", retryCount |-> 0, placeholders |-> {},
   completed |-> {}, stale |-> FALSE]

\* a run at its start: analyzeAudioData(videoSrc) is called first,
\* WaveformSync.tsx:685 and 821
Run(kind) ==
  [kind |-> kind, track |-> "video", retryCount |-> 0, placeholders |-> {},
   completed |-> {}, stale |-> FALSE]

Running == BagToSet(analyses)

\* what a correlation method does: it returns its candidates or throws
Ok(rs) == [thrown |-> FALSE, results |-> rs]
Thrown == [thrown |-> TRUE, results |-> <<>>]

\* the outcomes of the methods: findCorrelation always has results,
\* compareMFCCs is skipped (no results) when a track has no mfccs, and so
\* is matchOnsets when a track has no onsets
MethodOutcomes(m) ==
  IF m = "basic-correlation"
  THEN {Thrown, Ok(<<[offset |-> 100, correlation |-> 9, method |-> m]>>)}
  ELSE IF m = "mfcc"
       THEN {Thrown, Ok(<<>>), Ok(<<[offset |-> 200, correlation |-> 9, method |-> m]>>)}
       ELSE {Thrown, Ok(<<>>)}

\* findEnhancedCorrelation, WaveformSync.tsx:527-556: the three methods are
\* called in turn with no try block, so an exception of one leaves the
\* function
findEnhancedCorrelation(basic, mfcc, onset) ==
  IF basic.thrown \/ mfcc.thrown \/ onset.thrown
  THEN Thrown
  ELSE Ok(basic.results \o mfcc.results \o onset.results)

\* getAudioContext(), WaveformSync.tsx:300-307: the ref after the call
getAudioContext(ref) == IF ref = Null THEN <<"context">> ELSE ref

\* analyzeAudioData(url) up to its first await: attemptAnalysis calls
\* getAudioContext() and fetch(url), WaveformSync.tsx:315-316
StartAttempt ==
  /\ audioContextRef' = getAudioContext(audioContextRef)
  /\ openContexts' = IF audioContextRef = Null THEN openContexts + 1 ELSE openContexts

\* the value analyzeAudioData returns: the decoded track
\* (WaveformSync.tsx:373-377) or the placeholder (WaveformSync.tsx:389-401)
Returned(attempts, ok) ==
  IF ok
  THEN [attempts |-> attempts, result |-> "decoded", waveform |-> 150,
        features |-> {"mfccs", "onsets"}]
  ELSE [attempts |-> attempts, result |-> "placeholder", waveform |-> 150,
        rawData |-> 1000, features |-> {}]

\* the end of analyzeSyncPoints, WaveformSync.tsx:690-763: the aggregation
\* of the results cs, the auto-apply and the finally block.  The state
\* setters of an unmounted component do nothing; onOffsetChange is the
\* parent's.
Publish(cs) ==
  LET unique == UniqueSuggestions(cs)
  IN  /\ candidates' = cs
      /\ analysisDone' = TRUE
      /\ appliedOffset' = IF Len(unique) > 0 THEN <<unique[1]>> ELSE appliedOffset
      /\ IF mounted
         THEN /\ syncSuggestions' = unique
              /\ selectedSuggestion' =
                   IF Len(unique) > 0 THEN <<unique[1]>> ELSE selectedSuggestion
              /\ isAnalyzing' = FALSE
         ELSE UNCHANGED <<syncSuggestions, selectedSuggestion, isAnalyzing>>

\* an exception in analyzeSyncPoints: the catch block logs it and the
\* finally block runs, WaveformSync.tsx:760-764
Caught ==
  /\ isAnalyzing' = IF mounted THEN FALSE ELSE isAnalyzing
  /\ UNCHANGED aggVars

\* analyzeSyncPoints up to its first await, WaveformSync.tsx:674-685
analyzeSyncPoints ==
  /\ mounted
  /\ ~isAnalyzing
  /\ BagCardinality(analyses) < MaxAnalyses
  /\ isAnalyzing' = TRUE
  /\ syncSuggestions' = <<>>
  /\ analyses' = analyses (+) SetToBag({Run("sync")})
  /\ StartAttempt
  /\ lastEvent' = "analyze"
  /\ UNCHANGED <<candidates, selectedSuggestion, appliedOffset, analysisDone>>
  /\ UNCHANGED <<mounted, returned>>
  /\ UNCHANGED <<playVars, sigVars>>

\* an attempt of the call in progress of run r settles: ok when fetch and
\* decode succeeded, otherwise an error was thrown in the try block of
\* attemptAnalysis (WaveformSync.tsx:314-378) and its catch block
\* (WaveformSync.tsx:379-402) retries or returns the placeholder.  When
\* the call returns, the run goes on: the call for the uploaded audio
\* track, or the end of the run.
attemptAnalysis(r, ok) ==
  /\ r \in Running
  /\ LET rest == analyses (-) SetToBag({r})
     IN  IF ~ok /\ r.retryCount < maxRetries
         THEN /\ analyses' = rest (+) SetToBag({[r EXCEPT !.retryCount = @ + 1]})
              /\ StartAttempt
              /\ lastEvent' = "retry"
              /\ UNCHANGED <<returned, isAnalyzing>>
              /\ UNCHANGED aggVars
         ELSE LET ph == IF ok THEN r.placeholders ELSE r.placeholders \cup {r.track}
              IN  /\ returned' = Returned(r.retryCount + 1, ok)
                  /\ IF r.track = "video"
                     THEN /\ analyses' = rest (+) SetToBag({[r EXCEPT !.track = "audio",
                                                                     !.retryCount = 0,
                                                                     !.placeholders = ph,
                                                                     !.completed = {"video"}]})
                          /\ StartAttempt
                          /\ lastEvent' = "returned"
                          /\ UNCHANGED isAnalyzing
                          /\ UNCHANGED aggVars
                     ELSE /\ analyses' = rest
                          /\ UNCHANGED <<audioContextRef, openContexts>>
                          /\ IF r.kind = "sync"
                             THEN \E b \in MethodOutcomes("basic-correlation"),
                                     m \in MethodOutcomes("mfcc"),
                                     o \in MethodOutcomes("onset") :
                                    LET res == findEnhancedCorrelation(b, m, o)
                                    IN  IF res.thrown
                                        THEN /\ Caught
                                             /\ lastEvent' = "methodFailed"
                                        ELSE /\ Publish(res.results)
                                             /\ lastEvent' = IF ph = {} THEN "syncDone"
                                                                       ELSE "syncDegraded"
                             ELSE /\ lastEvent' = "initialized"
                                  /\ UNCHANGED isAnalyzing
                                  /\ UNCHANGED aggVars
  /\ UNCHANGED mounted
  /\ UNCHANGED <<playVars, sigVars>>

\* videoSrc / audioSrc change: the effects of SrcEffects, and the effect of
\* WaveformSync.tsx:813-863 starts initializeAnalysis
SrcChangeAnalysed(dv, da) ==
  /\ BagCardinality(analyses) < MaxAnalyses
  /\ SrcEffects(dv, da)
  /\ analyses' = BagOfAll(LAMBDA r : [r EXCEPT !.stale = TRUE], analyses)
                    (+) SetToBag({Run("initialize")})
  /\ StartAttempt

\* the component unmounts: every cleanup runs, WaveformSync.tsx:90-103,
\* 988-1033 and 1041-1059
Unmount ==
  /\ mounted
  /\ mounted' = FALSE
  /\ videoAudio' = Pause(videoAudio)
  /\ uploadedAudio' = Pause(uploadedAudio)
  /\ rafPending' = FALSE
  /\ isPlaying' = FALSE
  /\ isAnalyzing' = FALSE
  /\ timers' = Retire(timers, "torn")
  /\ audioContextRef' = Null
  /\ openContexts' = IF audioContextRef = Null THEN openContexts ELSE openContexts - 1
  /\ lastEvent' = "unmount"
  /\ UNCHANGED <<playbackMode, playbackProgress, offsetSeconds, notices>>
  /\ UNCHANGED <<analyses, returned>>
  /\ UNCHANGED <<aggVars, sigVars>>

\* the component just mounted: the effect of WaveformSync.tsx:813-863 has
\* started initializeAnalysis
InitAnalysis ==
  /\ InitPlayIdle
  /\ videoAudio = NewElement(1000)
  /\ uploadedAudio = NewElement(1000)
  /\ InitAggIdle
  /\ InitSigIdle
  /\ mounted = TRUE
  /\ isAnalyzing = FALSE
  /\ audioContextRef = <<"context">>
  /\ openContexts = 1
  /\ analyses = SetToBag({Run("initialize")})
  /\ returned = Null

NextAnalysis ==
  \/ analyzeSyncPoints
  \/ \E r \in Running, ok \in BOOLEAN : attemptAnalysis(r, ok)
  \/ \E d \in Durations : SrcChangeAnalysed(d, d)
  \/ Unmount

SpecAnalysis == InitAnalysis /\ [][NextAnalysis]_vars

\* C14: a call of analyzeAudioData makes at most 3 attempts, and returns
\* the decoded track, or after the third failed attempt the placeholder
\* (150-point waveform, 1000 samples, no features): while a call is in
\* progress it has failed at most twice, and every settled attempt either
\* retries or returns.
C14_AtMostThreeAttempts ==
  /\ \A r \in Running : r.retryCount <= 2
  /\ returned # Null =>
       /\ returned.attempts \in 1..3
       /\ returned.result = "placeholder" =>
            /\ returned.attempts = 3
            /\ returned.waveform = 150 /\ returned.rawData = 1000
            /\ returned.features = {}

\* a call has returned the placeholder after three failed attempts
C14_Witness ==
  /\ returned # Null
  /\ returned.result = "placeholder" /\ returned.attempts = 3
  /\ lastEvent \in {"returned", "initialized", "syncDone", "syncDegraded"}

\* C15: a run of analyzeSyncPoints in which a track could not be decoded
\* on any attempt does not publish suggestions or apply an offset.
C15_FailedDecodeNotPublished ==
  [][lastEvent' = "syncDegraded"
       => UNCHANGED <<syncSuggestions, selectedSuggestion, appliedOffset>>]_vars

\* C16: at most one analysis run is in flight.
C16_OneAnalysisInFlight == BagCardinality(analyses) <= 1

\* C18: at most one decoding context is open, and none is open once the
\* component has been torn down, whatever the runs still in flight do.
C18_OneContextClosedOnTeardown ==
  /\ openContexts <= 1
  /\ ~mounted => (openContexts = 0 /\ audioContextRef = Null)

----------------------------------------------------------------------------
(* The signal functions: the visualization waveform of analyzeAudioData    *)
(* and findCorrelation.  A decoded channel is a record                     *)
(*   length  the number of samples                                         *)
(*   base    the value of every sample that is not a spike                 *)
(*   spikes  a function from some sample indices (from 0) to their values  *)
(* with sample values in units of full scale (1 is 1.0).  A JavaScript     *)
(* number is a fraction [num, den] with den > 0; NaN (0 / 0) is held as    *)
(* [num |-> 0, den |-> 0].                                                 *)

\* const samples = 150, WaveformSync.tsx:341
samples == 150

\* const sampleRate = 44100, WaveformSync.tsx:775
sampleRate == 44100

\* const maxOffsetSeconds = 5, WaveformSync.tsx:776
maxOffsetSeconds == 5

\* the channel lengths and spike positions of the inputs
Lengths == {1, 100, 150, 301, 8821, 13231}
SpikeIndices == {0, 1, 149, 150, 300, 4410, 8820, 13230}

Channel(n, b, f) == [length |-> n, base |-> b, spikes |-> f]

\* channels with at most two spikes of full scale over silence or over a
\* constant level, and one channel longer than the 10 s findCorrelation
\* reads
RawInputs ==
  UNION {{Channel(n, b, f) :
            f \in UNION {[P -> {-1, 1}] :
                           P \in {Q \in SUBSET {p \in SpikeIndices : p < n} :
                                    Cardinality(Q) <= 2}}} :
           n \in Lengths, b \in {0, 1}}
    \cup {Channel(441001, 0, (0 :> 1) @@ (8820 :> 1))}

\* rawData[k]
SampleAt(raw, k) == IF k \in DOMAIN raw.spikes THEN raw.spikes[k] ELSE raw.base

RECURSIVE SumOver(_, _)
SumOver(S, f) ==
  IF S = {} THEN 0
  ELSE LET x == CHOOSE y \in S : TRUE
       IN  f[x] + SumOver(S \ {x}, f)

Frac(n, d) == [num |-> n, den |-> d]

NaN == Frac(0, 0)

\* a / b for numbers a >= 0 and b >= 0 of JavaScript: 0 / 0 and every
\* quotient of NaN is NaN, x / 0 is Infinity (den = 0, num > 0)
Divide(a, b) ==
  IF a = NaN \/ b = NaN THEN NaN
  ELSE IF b.num = 0
       THEN IF a.num = 0 THEN NaN ELSE Frac(1, 0)
       ELSE Frac(a.num * b.den, a.den * b.num)

\* a <= b for fractions
Leq(a, b) == a.num * b.den <= b.num * a.den

\* Math.floor(rawData.length / samples), WaveformSync.tsx:342
blockSize(raw) == raw.length \div samples

\* the sum of the inner loop of WaveformSync.tsx:349-352 for block i (from
\* 0): every sample of the block contributes |base|, a spike |value|
BlockSum(raw, i) ==
  LET bs == blockSize(raw)
      inBlock == {p \in DOMAIN raw.spikes : p >= bs * i /\ p < bs * i + bs}
      extra == [p \in inBlock |-> Abs(raw.spikes[p]) - Abs(raw.base)]
  IN  Abs(raw.base) * bs + SumOver(inBlock, extra)

\* filteredData, WaveformSync.tsx:343-355: sum / blockSize
filteredData(raw) ==
  [i \in 1..samples |-> Divide(Frac(BlockSum(raw, i - 1), 1), Frac(blockSize(raw), 1))]

\* Math.max(...filteredData, 0.01), WaveformSync.tsx:358: NaN when an
\* argument is NaN
maxValue(fd) ==
  IF \E i \in DOMAIN fd : fd[i] = NaN THEN NaN
  ELSE LET all == {fd[i] : i \in DOMAIN fd} \cup {Frac(1, 100)}
       IN  CHOOSE m \in all : \A x \in all : Leq(x, m)

\* normalizedData, WaveformSync.tsx:359
normalizedData(raw) ==
  LET fd == filteredData(raw)
      mv == maxValue(fd)
  IN  [i \in DOMAIN fd |-> Divide(fd[i], mv)]

\* the waveform of a decoded channel, WaveformSync.tsx:337-359
ComputeWaveform ==
  /\ rawData # Null
  /\ waveform = Null
  /\ waveform' = <<normalizedData(rawData[1])>>
  /\ lastEvent' = "waveform"
  /\ UNCHANGED <<rawData, correlationResults>>
  /\ UNCHANGED <<playVars, aggVars, anVars, featVars>>

\* signal.slice(0, Math.min(signal.length, maxSamples)), WaveformSync.tsx:770-772
Slice(raw, n) ==
  LET len == Min(raw.length, n)
  IN  Channel(len, raw.base,
              [p \in {q \in DOMAIN raw.spikes : q < len} |-> raw.spikes[p]])

\* Math.floor(sampleRate * 0.1), WaveformSync.tsx:780
stepSize == sampleRate \div 10

\* the correlation of WaveformSync.tsx:786-799 at offsetSamples = k: the
\* loop adds s1[i] * s2[i + k] for every i with both indices in range,
\* which is base1 * base2 for each of the count pairs, corrected at the
\* pairs that hold a spike
CorrelationAt(s1, s2, k) ==
  LET lo == Max(0, -k)
      hi == Min(s1.length, s2.length - k)
      count == Max(0, hi - lo)
      touched == {i \in DOMAIN s1.spikes \cup {p - k : p \in DOMAIN s2.spikes} :
                    i >= lo /\ i < hi}
      extra == [i \in touched |->
                  SampleAt(s1, i) * SampleAt(s2, i + k) - s1.base * s2.base]
      sum == s1.base * s2.base * count + SumOver(touched, extra)
  IN  IF count > 0 THEN Frac(sum, count) ELSE Frac(0, 1)

\* findCorrelation, WaveformSync.tsx:768-811: one result for each of the
\* 101 offsets from -5 s to 5 s; parseFloat((k / sampleRate).toFixed(2)) is
\* held in hundredths of a second
findCorrelation(signal1, signal2) ==
  LET maxSamples == sampleRate * 10
      s1 == Slice(signal1, maxSamples)
      s2 == Slice(signal2, maxSamples)
      maxOffsetSamples == maxOffsetSeconds * sampleRate
      n == (2 * maxOffsetSamples) \div stepSize + 1
  IN  [i \in 1..n |->
         LET k == (i - 1) * stepSize - maxOffsetSamples
         IN  [offset |-> (k * 100) \div sampleRate,
              correlation |-> CorrelationAt(s1, s2, k)]]

\* findCorrelation on two identical tracks
FindCorrelation ==
  /\ rawData # Null
  /\ correlationResults = Null
  /\ correlationResults' = <<findCorrelation(rawData[1], rawData[1])>>
  /\ lastEvent' = "correlation"
  /\ UNCHANGED <<rawData, waveform>>
  /\ UNCHANGED <<playVars, aggVars, anVars, featVars>>

InitSignal ==
  /\ InitPlayIdle
  /\ videoAudio = NewElement(1000)
  /\ uploadedAudio = NewElement(1000)
  /\ InitAggIdle
  /\ InitAnIdle
  /\ \E raw \in RawInputs : rawData = <<raw>>
  /\ waveform = Null
  /\ correlationResults = Null
  /\ InitFeatIdle

NextSignal == ComputeWaveform \/ FindCorrelation

SpecSignal == InitSignal /\ [][NextSignal]_vars

\* C19: the waveform of every non-empty channel has exactly 150 entries,
\* each a number in [0, 1].
C19_WaveformInUnitRange ==
  waveform # Null =>
    /\ Len(waveform[1]) = 150
    /\ \A i \in DOMAIN waveform[1] :
         LET w == waveform[1][i]
         IN  /\ w.den > 0
             /\ w.num >= 0 /\ w.num <= w.den

\* C20: on identical tracks findCorrelation gives an offset within one
\* step (0.1 s) of 0 a correlation that is the maximum over all scanned
\* offsets.
C20_IdenticalTracksPeakAtZero ==
  correlationResults # Null =>
    LET rs == correlationResults[1]
    IN  \E i \in DOMAIN rs :
          /\ Abs(rs[i].offset) <= 10
          /\ \A j \in DOMAIN rs : Leq(rs[j].correlation, rs[i].correlation)

----------------------------------------------------------------------------
(* Further properties of the aggregation *)

MaxTopCandidates == 4

\* candidates of the three methods at three offsets, equal confidence
TopPool ==
  {[offset |-> o, correlation |-> 9, method |-> m] :
     o \in {100, 200, 300}, m \in Methods}

InitTop ==
  /\ InitPlayIdle
  /\ videoAudio = NewElement(1000)
  /\ uploadedAudio = NewElement(1000)
  /\ \E n \in 0..MaxTopCandidates : candidates \in [1..n -> TopPool]
  /\ syncSuggestions = <<>>
  /\ selectedSuggestion = Null
  /\ appliedOffset = Null
  /\ analysisDone = FALSE
  /\ InitAnIdle
  /\ InitSigIdle

SpecTop == InitTop /\ [][NextAgg]_vars

\* the offsets of the candidates of cs from the best weighted score down,
\* each offset once
RankedOffsets(cs) ==
  LET sorted == SortByScore(cs)
  IN  Dedupe([i \in DOMAIN sorted |-> sorted[i].offset])

\* C22: when the candidate list holds at least three distinct offsets, the
\* offsets of the three best candidates with pairwise distinct offsets are
\* all taken as suggestions.
C22_TopThreeDistinct ==
  (analysisDone /\ Len(RankedOffsets(candidates)) >= 3)
    => \A i \in 1..3 : RankedOffsets(candidates)[i] \in Range(syncSuggestions)

\* the run r ends in this step
Ends(r) == CopiesIn(r, analyses') < CopiesIn(r, analyses) /\ BagCardinality(analyses') < BagCardinality(analyses)

\* C23: when one correlation method fails, the suggestion list that the
\* run leaves is not empty.
C23_MethodFailureIsolated ==
  (lastEvent = "methodFailed" /\ mounted) => syncSuggestions # <<>>

\* C27: in every run the call for the uploaded audio track is in progress
\* only after the call for the video track has returned.
C27_TracksInSequence ==
  \A r \in Running : r.track = "audio" => "video" \in r.completed

\* a run is at a retry of its uploaded audio track after its video track
\* came back as the placeholder
C27_Witness ==
  \E r \in Running :
    /\ r.track = "audio" /\ r.retryCount > 0
    /\ r.placeholders = {"video"} /\ r.completed = {"video"}

\* C29: a run of analyzeSyncPoints that ends after the sources have
\* changed sets neither the suggestion list, the selected suggestion nor
\* the accepted offset.
C29_StaleResultsDropped ==
  [][\A r \in Running :
       (r.stale /\ r.kind = "sync" /\ Ends(r))
         => UNCHANGED <<syncSuggestions, selectedSuggestion, appliedOffset>>]_vars

----------------------------------------------------------------------------
(* The auto-applied suggestion *)

C28_StoppedMeansProgressZero == ~isPlaying => playbackProgress = 0

----------------------------------------------------------------------------
(* extractAudioFeatures.  Meyda.extract is a library call: for each frame  *)
(* it either returns features or fails (it throws, or returns nothing).    *)
(* An rms value is held in hundredths of full scale.  An onset time is     *)
(* startIndex / sampleRate, held as the fraction [num, den].               *)

MaxFrames == 4

\* const hopSize = 4096, WaveformSync.tsx:413
hopSize == 4096

\* rms values below, at and above the energy threshold 0.1, among them a
\* value and 1.5 times that value
RmsLevels == {0, 10, 15, 40}

\* Meyda.extract threw or returned no features, WaveformSync.tsx:437-465
Failed == [ok |-> FALSE, rms |-> 0]

\* Meyda.extract returned features with features.rms || 0 = r
Extracted(r) == [ok |-> TRUE, rms |-> r]

FrameOutcomes == {Failed} \cup {Extracted(r) : r \in RmsLevels}

\* the feature arrays and lastRMS before the first frame, WaveformSync.tsx:422-429
NoFeatures ==
  [spectralCentroids |-> <<>>, rms |-> <<>>, onsets |-> <<>>, mfccs |-> <<>>,
   lastRMS |-> 0]

\* a loop body that puts a new onset in front of the earlier ones
FrameStep_Prepends(acc, i, outcome) ==
  IF ~outcome.ok THEN acc
  ELSE [spectralCentroids |-> Append(acc.spectralCentroids, i),
        rms |-> Append(acc.rms, outcome.rms),
        onsets |-> IF i > 0 /\ outcome.rms > 10
                        /\ 2 * outcome.rms > 3 * acc.lastRMS
                   THEN <<Frac(i * hopSize, sampleRate)>> \o acc.onsets
                   ELSE acc.onsets,
        mfccs |-> IF i % 3 = 0 THEN Append(acc.mfccs, i) ELSE acc.mfccs,
        lastRMS |-> outcome.rms]

\* the body of the frame loop for frame i (from 0), WaveformSync.tsx:431-466.
\* The spectral centroid and the mfcc vector of a frame are held as the
\* index of the frame they come from.
FrameStep(acc, i, outcome) ==
  IF ~outcome.ok THEN acc
  ELSE [spectralCentroids |-> Append(acc.spectralCentroids, i),
        rms |-> Append(acc.rms, outcome.rms),
        onsets |-> IF i > 0 /\ outcome.rms > 10
                        /\ 2 * outcome.rms > 3 * acc.lastRMS
                   THEN Append(acc.onsets, Frac(i * hopSize, sampleRate))
                   ELSE acc.onsets,
        mfccs |-> IF i % 3 = 0 THEN Append(acc.mfccs, i) ELSE acc.mfccs,
        lastRMS |-> outcome.rms]

\* the state of the loop after the first n frames
RECURSIVE FrameLoop(_, _)
FrameLoop(outcomes, n) ==
  IF n = 0 THEN NoFeatures
  ELSE FrameStep(FrameLoop(outcomes, n - 1), n - 1, outcomes[n])

\* extractAudioFeatures on a track whose frames have the given outcomes,
\* WaveformSync.tsx:409-476
extractAudioFeatures(outcomes) ==
  LET acc == FrameLoop(outcomes, Len(outcomes))
  IN  [spectralCentroids |-> acc.spectralCentroids, rms |-> acc.rms,
       onsets |-> acc.onsets, mfccs |-> acc.mfccs]

ExtractAudioFeatures ==
  /\ frameFeatures # Null
  /\ audioFeatures = Null
  /\ audioFeatures' = <<extractAudioFeatures(frameFeatures[1])>>
  /\ lastEvent' = "features"
  /\ UNCHANGED <<frameFeatures, videoOnsets, audioOnsets, onsetResults>>
  /\ UNCHANGED <<rawData, waveform, correlationResults>>
  /\ UNCHANGED <<playVars, aggVars, anVars>>

InitFeatures ==
  /\ InitPlayIdle
  /\ videoAudio = NewElement(1000)
  /\ uploadedAudio = NewElement(1000)
  /\ InitAggIdle
  /\ InitAnIdle
  /\ rawData = Null
  /\ waveform = Null
  /\ correlationResults = Null
  /\ \E n \in 0..MaxFrames :
       \E outcomes \in [1..n -> FrameOutcomes] : frameFeatures = <<outcomes>>
  /\ audioFeatures = Null
  /\ videoOnsets = Null
  /\ audioOnsets = Null
  /\ onsetResults = Null

NextFeatures == ExtractAudioFeatures

SpecFeatures == InitFeatures /\ [][NextFeatures]_vars

\* the frames (from 0) whose start is among the onsets returned
OnsetFrames ==
  {i \in 0..(Len(frameFeatures[1]) - 1) :
     Frac(i * hopSize, sampleRate) \in Range(audioFeatures[1].onsets)}

\* the outcome of frame i (from 0)
OutcomeOf(i) == frameFeatures[1][i + 1]

\* C25: frame i is recorded as an onset exactly when i > 0, its rms is
\* above 0.1 and above 1.5 times the rms of frame i-1, its immediate
\* predecessor; a frame that failed adds nothing to any feature array.
C25_OnsetRule ==
  audioFeatures # Null =>
    /\ \A i \in 0..(Len(frameFeatures[1]) - 1) :
         i \in OnsetFrames <=>
           /\ i > 0
           /\ OutcomeOf(i).ok
           /\ OutcomeOf(i - 1).ok
           /\ OutcomeOf(i).rms > 10
           /\ 2 * OutcomeOf(i).rms > 3 * OutcomeOf(i - 1).rms
    /\ LET succeeded == {i \in 0..(Len(frameFeatures[1]) - 1) : OutcomeOf(i).ok}
       IN  /\ Len(audioFeatures[1].rms) = Cardinality(succeeded)
           /\ Range(audioFeatures[1].spectralCentroids) = succeeded
           /\ Range(audioFeatures[1].mfccs) \subseteq succeeded
           /\ Len(audioFeatures[1].onsets) = Cardinality(OnsetFrames)

\* C26: the onsets returned are in order: each is startIndex / sampleRate
\* of a frame later than the frame of the onset before it.
C26_OnsetsInOrder ==
  audioFeatures # Null =>
    LET onsets == audioFeatures[1].onsets
    IN  /\ \A k \in DOMAIN onsets :
             /\ onsets[k].den = sampleRate
             /\ \E i \in 0..(Len(frameFeatures[1]) - 1) :
                  onsets[k].num = i * hopSize
        /\ \A k \in 1..(Len(onsets) - 1) :
             /\ onsets[k].num < onsets[k + 1].num
             /\ Leq(onsets[k], onsets[k + 1])

\* two onsets were returned for a track one of whose frames failed between
\* them
C26_Witness ==
  /\ audioFeatures # Null
  /\ Len(audioFeatures[1].onsets) >= 2
  /\ \E i \in OnsetFrames, j \in OnsetFrames :
       \E f \in (i + 1)..(j - 1) : ~OutcomeOf(f).ok

----------------------------------------------------------------------------
(* matchOnsets.  The onset lists are lists extractAudioFeatures returns:   *)
(* ascending frame starts over sampleRate, the first frame excluded.  A    *)
(* difference of two onset times is held in samples, a reported offset in  *)
(* hundredths of a second, a confidence in tenths.                         *)

MaxOnsets == 4

\* const maxOffset = 5, WaveformSync.tsx:623
maxOffset == 5

\* frames with an onset: three in a row early in the track and three in a
\* row more than 5 s later (5 s is 53.8 hops)
OnsetFramePool == {1, 2, 3, 60, 61, 62}

RECURSIVE Ascending(_)
Ascending(S) ==
  IF S = {} THEN <<>>
  ELSE LET m == CHOOSE x \in S : \A y \in S : x <= y
       IN  <<m>> \o Ascending(S \ {m})

OnsetLists ==
  {LET fs == Ascending(S)
   IN  [k \in DOMAIN fs |-> Frac(fs[k] * hopSize, sampleRate)] :
     S \in {T \in SUBSET OnsetFramePool : Cardinality(T) <= MaxOnsets}}

\* (a - b) * sampleRate for two onset times
Diff(a, b) == a.num - b.num

\* parseFloat(x.toFixed(2)) for x = d / sampleRate, in hundredths; no
\* multiple of hopSize / sampleRate lies halfway between two hundredths
ToFixed2(d) ==
  LET q == (2 * Abs(d) * 100 + sampleRate) \div (2 * sampleRate)
  IN  IF d < 0 THEN -q ELSE q

\* Math.abs(offset) <= maxOffset, WaveformSync.tsx:648
WithinMaxOffset(d) == Abs(d) <= maxOffset * sampleRate

\* patternSimilarity = 1 for the triples at i and j, WaveformSync.tsx:627-642
Similar(v, a, i, j) ==
  /\ 10 * Abs(Diff(v[i + 1], v[i]) - Diff(a[j + 1], a[j])) < sampleRate
  /\ 10 * Abs(Diff(v[i + 2], v[i + 1]) - Diff(a[j + 2], a[j + 1])) < sampleRate

\* the pairs (i, j) the two loops visit, in the order visited
TriplePairs(v, a) ==
  LET nv == Max(Len(v) - 2, 0)
      na == Max(Len(a) - 2, 0)
  IN  [k \in 1..(nv * na) |-> <<((k - 1) \div na) + 1, ((k - 1) % na) + 1>>]

\* the pairs of triples with patternSimilarity > 0
PatternMatches(v, a) ==
  SelectSeq(TriplePairs(v, a), LAMBDA p : Similar(v, a, p[1], p[2]))

\* the results pushed by the loops, WaveformSync.tsx:644-655
PatternResults(v, a) ==
  LET kept == SelectSeq(PatternMatches(v, a),
                        LAMBDA p : WithinMaxOffset(Diff(v[p[1]], a[p[2]])))
  IN  [k \in DOMAIN kept |->
         [offset |-> ToFixed2(Diff(v[kept[k][1]], a[kept[k][2]])),
          correlation |-> 10]]

\* the first onset alignment, WaveformSync.tsx:659-668
Fallback(v, a) ==
  IF WithinMaxOffset(Diff(v[1], a[1]))
  THEN <<[offset |-> ToFixed2(Diff(v[1], a[1])), correlation |-> 5]>>
  ELSE <<>>

\* matchOnsets, WaveformSync.tsx:617-671
matchOnsets(v, a) ==
  IF v = <<>> \/ a = <<>> THEN <<>>
  ELSE IF PatternResults(v, a) # <<>> THEN PatternResults(v, a)
  ELSE Fallback(v, a)

MatchOnsets ==
  /\ videoOnsets # Null /\ audioOnsets # Null
  /\ onsetResults = Null
  /\ onsetResults' = <<matchOnsets(videoOnsets[1], audioOnsets[1])>>
  /\ lastEvent' = "onsets"
  /\ UNCHANGED <<frameFeatures, audioFeatures, videoOnsets, audioOnsets>>
  /\ UNCHANGED <<rawData, waveform, correlationResults>>
  /\ UNCHANGED <<playVars, aggVars, anVars>>

InitOnsets ==
  /\ InitPlayIdle
  /\ videoAudio = NewElement(1000)
  /\ uploadedAudio = NewElement(1000)
  /\ InitAggIdle
  /\ InitAnIdle
  /\ rawData = Null
  /\ waveform = Null
  /\ correlationResults = Null
  /\ frameFeatures = Null
  /\ audioFeatures = Null
  /\ \E v \in OnsetLists : videoOnsets = <<v>>
  /\ \E a \in OnsetLists : audioOnsets = <<a>>
  /\ onsetResults = Null

NextOnsets == MatchOnsets

SpecOnsets == InitOnsets /\ [][NextOnsets]_vars

\* C24: when some pair of onset triples matched, whether or not its offset
\* was kept, matchOnsets returns no first-onset candidate (confidence 0.5).
C24_FallbackOnlyWithoutPatternMatch ==
  onsetResults # Null =>
    (PatternMatches(videoOnsets[1], audioOnsets[1]) # <<>>
       => \A k \in DOMAIN onsetResults[1] : onsetResults[1][k].correlation # 5)

====
